---------------------------- MODULE Spec2Model ----------------------------
(***************************************************************************)
(* A model of the prefixed text formatter (formatter.go).                  *)
(*                                                                         *)
(* Go strings and the output buffer are sequences of bytes, written here   *)
(* as sequences of their ASCII codes.  A field value is a tagged record:   *)
(* a string, an error (with its Error() text) or an integer.               *)
(***************************************************************************)
EXTENDS Integers, Sequences, FiniteSets, TLC

VARIABLES
    f,              \* the *TextFormatter the calls are made on
    isTerminal,     \* package variable, set by init()
    goos,           \* runtime.GOOS of the build
    baseTimestamp,  \* package variable, set by init()
    now,            \* the wall clock, in ticks
    entry,          \* the *logrus.Entry the caller holds
    result,         \* what the last Format call was given and returned
    prev,           \* the call before it, when it was given the same record
    cdata,          \* concurrent calls: the field mapping of each shared record
    cpc,            \* concurrent calls: where each goroutine is in Format
    crec,           \* concurrent calls: the record each goroutine formats
    ckeys           \* concurrent calls: the keys each goroutine collected

vars == <<f, isTerminal, goos, baseTimestamp, now, entry, result, prev,
          cdata, cpc, crec, ckeys>>

seqVars == <<f, isTerminal, goos, baseTimestamp, now, entry, result, prev>>
concVars == <<cdata, cpc, crec, ckeys>>

---------------------------------------------------------------------------
(* Bounds of the model.                                                    *)

MaxClock == 2       \* the clock ticks at most this often
MaxMsgLen == 4      \* longest message drawn from MsgAlphabet
MaxValLen == 2      \* longest field value drawn from ValAlphabet
MaxFields == 3      \* most fields of a record drawn from KeyUniverse
MaxCalls == 2       \* most concurrent Format calls

---------------------------------------------------------------------------
(* Byte strings.                                                           *)

KeyTime == <<116, 105, 109, 101>>  \* "time"
KeyMsg == <<109, 115, 103>>  \* "msg"
KeyLevel == <<108, 101, 118, 101, 108>>  \* "level"
KeyPrefix == <<112, 114, 101, 102, 105, 120>>  \* "prefix"
KeyFieldsTime == <<102, 105, 101, 108, 100, 115, 46, 116, 105, 109, 101>>  \* "fields.time"
KeyFieldsMsg == <<102, 105, 101, 108, 100, 115, 46, 109, 115, 103>>  \* "fields.msg"
KeyFieldsLevel == <<102, 105, 101, 108, 100, 115, 46, 108, 101, 118, 101, 108>>  \* "fields.level"

\* github.com/mgutz/ansi: the escape sequences the formatter uses.
reset == <<27, 91, 48, 109>>  \* ansi.Reset "\033[0m"
White == <<27, 91, 48, 59, 51, 55, 109>>  \* "\033[0;37m"
Blue == <<27, 91, 48, 59, 51, 52, 109>>  \* "\033[0;34m"
Yellow == <<27, 91, 48, 59, 51, 51, 109>>  \* "\033[0;33m"
Red == <<27, 91, 48, 59, 51, 49, 109>>  \* "\033[0;31m"
LightBlack == <<27, 91, 48, 59, 57, 48, 109>>  \* "\033[0;90m"
StyleGreen == <<103, 114, 101, 101, 110>>  \* "green"
StyleCyan == <<99, 121, 97, 110>>  \* "cyan"

\* ansi.ColorCode(style), for the styles the model configures.
ColorCode(style) ==
    IF style = StyleGreen THEN <<27, 91, 48, 59, 51, 50, 109>>     \* "\033[0;32m"
    ELSE IF style = StyleCyan THEN <<27, 91, 48, 59, 51, 54, 109>> \* "\033[0;36m"
    ELSE <<>>

RECURSIVE Concat(_)
Concat(ss) == IF ss = <<>> THEN <<>> ELSE Head(ss) \o Concat(Tail(ss))

Range(s) == {s[i] : i \in 1..Len(s)}

Count(ch, s) == Cardinality({i \in 1..Len(s) : s[i] = ch})

\* s occurs in t as a contiguous run of bytes
Contains(t, s) ==
    \E i \in 0..(Len(t) - Len(s)) : \A j \in 1..Len(s) : t[i + j] = s[j]

HasPrefix(t, s) == Len(s) <= Len(t) /\ \A j \in 1..Len(s) : t[j] = s[j]

\* strconv / fmt %d of a non-negative integer
RECURSIVE Itoa(_)
Itoa(n) == IF n < 10 THEN <<48 + n>> ELSE Itoa(n \div 10) \o <<48 + (n % 10)>>

\* fmt integer rendering, with the sign
FmtInt(n) == IF n < 0 THEN <<45>> \o Itoa(0 - n) ELSE Itoa(n)

RECURSIVE PadLeft(_, _, _)
PadLeft(s, width, ch) == IF Len(s) >= width THEN s ELSE PadLeft(<<ch>> \o s, width, ch)

\* fmt "%04d" of a non-negative integer
Fmt04d(n) == PadLeft(Itoa(n), 4, 48)

\* fmt "%+5s"
Fmt5s(s) == PadLeft(s, 5, 32)

\* strconv.Quote / fmt "%q" of one byte of an ASCII string
QuoteChar(ch) ==
    IF ch = 34 THEN <<92, 34>>                \* \"
    ELSE IF ch = 92 THEN <<92, 92>>           \* \\
    ELSE IF ch = 10 THEN <<92, 110>>          \* \n
    ELSE IF ch = 9 THEN <<92, 116>>           \* \t
    ELSE IF ch = 13 THEN <<92, 114>>          \* \r
    ELSE IF ch = 27 THEN <<92, 120, 49, 98>>  \* \x1b
    ELSE <<ch>>

Quote(text) ==
    <<34>> \o Concat([i \in 1..Len(text) |-> QuoteChar(text[i])]) \o <<34>>

\* unicode.IsSpace on ASCII
IsSpace(ch) == ch \in {9, 10, 11, 12, 13, 32}

RECURSIVE TrimLeft(_)
TrimLeft(s) == IF s # <<>> /\ IsSpace(Head(s)) THEN TrimLeft(Tail(s)) ELSE s

RECURSIVE TrimRight(_)
TrimRight(s) ==
    IF s # <<>> /\ IsSpace(s[Len(s)]) THEN TrimRight(SubSeq(s, 1, Len(s) - 1)) ELSE s

\* strings.TrimSpace
TrimSpace(s) == TrimRight(TrimLeft(s))

\* strings.ToUpper on ASCII
ToUpper(s) == [i \in 1..Len(s) |-> IF s[i] >= 97 /\ s[i] <= 122 THEN s[i] - 32 ELSE s[i]]

\* byte-wise lexicographic order of Go strings (the order of sort.Strings)
StrLess(a, b) ==
    \E i \in 1..(Len(a) + 1) :
        /\ i <= Len(b)
        /\ \A j \in 1..(i - 1) : a[j] = b[j]
        /\ (i = Len(a) + 1 \/ a[i] < b[i])

RECURSIVE Insert(_, _)
Insert(k, s) ==
    IF s = <<>> THEN <<k>>
    ELSE IF StrLess(Head(s), k) THEN <<Head(s)>> \o Insert(k, Tail(s))
    ELSE <<k>> \o s

SortStringsSkipped(keys) == keys

\* sort.Strings(keys)
RECURSIVE SortStrings(_)
SortStrings(keys) ==
    IF keys = <<>> THEN <<>> ELSE Insert(Head(keys), SortStrings(Tail(keys)))

---------------------------------------------------------------------------
(* Field values.                                                           *)

StrV(s) == [kind |-> "string", s |-> s, n |-> 0]
ErrV(s) == [kind |-> "error", s |-> s, n |-> 0]
IntV(n) == [kind |-> "int", s |-> <<>>, n |-> n]

\* fmt.Print(value) and fmt "%+v": a string as it is, an error by its Error()
\* text, an integer in decimal
Sprint(value) == IF value.kind = "int" THEN FmtInt(value.n) ELSE value.s

\* fmt "%s" of a value: an integer is no string and prints as %!s(int=N)
SprintS(value) ==
    IF value.kind = "int"
    THEN <<37, 33, 115, 40, 105, 110, 116, 61>> \o FmtInt(value.n) \o <<41>>
    ELSE value.s

---------------------------------------------------------------------------
(* logrus levels and time.                                                 *)

PanicLevel == 0
FatalLevel == 1
ErrorLevel == 2
WarnLevel == 3
InfoLevel == 4
DebugLevel == 5

\* logrus.Level.String()
LevelString(level) ==
    CASE level = DebugLevel -> <<100, 101, 98, 117, 103>>           \* "debug"
      [] level = InfoLevel -> <<105, 110, 102, 111>>                \* "info"
      [] level = WarnLevel -> <<119, 97, 114, 110, 105, 110, 103>>  \* "warning"
      [] level = ErrorLevel -> <<101, 114, 114, 111, 114>>          \* "error"
      [] level = FatalLevel -> <<102, 97, 116, 97, 108>>            \* "fatal"
      [] level = PanicLevel -> <<112, 97, 110, 105, 99>>            \* "panic"
      [] OTHER -> <<117, 110, 107, 110, 111, 119, 110>>             \* "unknown"

TimeStamp == <<74, 97, 110, 32, 95, 50, 32, 49, 53, 58, 48, 52, 58, 48, 53>>  \* time.Stamp "Jan _2 15:04:05"
LayoutClock == <<49, 53, 58, 48, 52, 58, 48, 53>>  \* "15:04:05"

\* entry.Time.Format(layout) of the instant t seconds after Jan 1 00:00:00,
\* t < 60, for the two layouts the model configures
TimeFormat(t, layout) ==
    IF layout = TimeStamp
    THEN <<74, 97, 110, 32, 32, 49, 32, 48, 48, 58, 48, 48, 58>> \o PadLeft(Itoa(t), 2, 48)
    ELSE <<48, 48, 58, 48, 48, 58>> \o PadLeft(Itoa(t), 2, 48)

TicksPerSecond == 2

miniTSTicks(clock, base) == clock - base

\* miniTS(): whole seconds since baseTimestamp
miniTS(clock, base) == (clock - base) \div TicksPerSecond

---------------------------------------------------------------------------
(* The formatter.                                                          *)

NilColors == [nil |-> TRUE]   \* f.Colors == nil: a pointer to no Colors

\* The role's style of the palette; reading it through a nil *Colors is a
\* nil-pointer dereference, which the callers below turn into a panic.
Role(fmtr, role) == fmtr.Colors[role]

needsQuotingAlways(text) == TRUE

\* needsQuoting: TRUE when text may be written bare
needsQuoting(text) ==
    \A i \in 1..Len(text) :
        LET ch == text[i] IN
        \/ (ch >= 97 /\ ch <= 122)
        \/ (ch >= 65 /\ ch <= 90)
        \/ (ch >= 48 /\ ch <= 57)
        \/ ch = 45 \/ ch = 46

NoMatch(msg) == [prefix |-> <<>>, msg |-> msg]

extractPrefixOneSpace(msg) ==
    LET closes == {j \in 2..Len(msg) : msg[j] = 93} IN
    IF Len(msg) >= 1 /\ msg[1] = 91 /\ closes # {}
    THEN LET j == CHOOSE x \in closes : \A y \in closes : x <= y
             rest == SubSeq(msg, j + 1, Len(msg)) IN
         [prefix |-> SubSeq(msg, 2, j - 1),
          msg |-> IF rest # <<>> /\ rest[1] = 32 THEN Tail(rest) ELSE rest]
    ELSE NoMatch(msg)

\* extractPrefix: the regular expression ^\[(.*?)\] matches from a leading '['
\* to the first ']', and '.' matches no line feed
extractPrefix(msg) ==
    LET closes == {j \in 2..Len(msg) : msg[j] = 93} IN
    IF Len(msg) >= 1 /\ msg[1] = 91 /\ closes # {}
    THEN LET j == CHOOSE x \in closes : \A y \in closes : x <= y IN
         IF \A i \in 2..(j - 1) : msg[i] # 10
         THEN [prefix |-> SubSeq(msg, 2, j - 1),
               msg |-> TrimSpace(SubSeq(msg, j + 1, Len(msg)))]
         ELSE NoMatch(msg)
    ELSE NoMatch(msg)

appendKeyValueBare(b, key, value) ==
    b \o key \o <<61>> \o Sprint(value) \o <<32>>

\* appendKeyValue: key=value and a space; a string or an error is written
\* bare when needsQuoting says so and as a quoted literal otherwise
appendKeyValue(b, key, value) ==
    b \o key \o <<61>>
      \o (IF value.kind \in {"string", "error"}
          THEN IF needsQuoting(value.s) THEN value.s ELSE Quote(value.s)
          ELSE Sprint(value))
      \o <<32>>

\* one clash of prefixFieldClashes: data[fk] = data[k] when k is a key
FieldClash(data, k, fk) ==
    IF k \in DOMAIN data
    THEN [x \in DOMAIN data \cup {fk} |-> IF x = fk THEN data[k] ELSE data[x]]
    ELSE data

\* prefixFieldClashes(data): the mapping as the call leaves it
prefixFieldClashes(data) ==
    FieldClash(FieldClash(FieldClash(data, KeyTime, KeyFieldsTime),
                          KeyMsg, KeyFieldsMsg),
               KeyLevel, KeyFieldsLevel)

\* printColored: the switch on entry.Level; every arm reads f.Colors
levelColor(fmtr, level) ==
    CASE level = DebugLevel ->
            IF Role(fmtr, "Debug") # <<>> THEN ColorCode(Role(fmtr, "Debug")) ELSE White
      [] level = InfoLevel ->
            IF Role(fmtr, "Info") # <<>> THEN ColorCode(Role(fmtr, "Info")) ELSE Blue
      [] level = WarnLevel ->
            IF Role(fmtr, "Warn") # <<>> THEN ColorCode(Role(fmtr, "Warn")) ELSE Yellow
      [] level \in {ErrorLevel, FatalLevel, PanicLevel} ->
            IF Role(fmtr, "Error") # <<>> THEN ColorCode(Role(fmtr, "Error")) ELSE Red
      [] OTHER ->
            IF Role(fmtr, "Default") # <<>> THEN ColorCode(Role(fmtr, "Default")) ELSE White

levelTextAbbreviated(level) ==
    IF level # WarnLevel
    THEN SubSeq(ToUpper(LevelString(level)), 1, 4)
    ELSE <<87, 65, 82, 78>>

\* printColored: the level label
levelText(level) ==
    IF level # WarnLevel
    THEN ToUpper(LevelString(level))
    ELSE <<87, 65, 82, 78>>   \* "WARN"

\* printColored: the prefix color
prefixColor(fmtr) ==
    IF Role(fmtr, "Prefix") # <<>> THEN ColorCode(Role(fmtr, "Prefix")) ELSE LightBlack

\* printColored: fmt.Sprintf("%s %s:%s", prefixColor, prefixValue, reset)
prefixAnnotation(fmtr, text) ==
    prefixColor(fmtr) \o <<32>> \o text \o <<58>> \o reset

\* printColored: the prefix annotation and the message that is displayed
prefixAndMessage(fmtr, e, data) ==
    IF KeyPrefix \in DOMAIN data
    THEN [prefix |-> prefixAnnotation(fmtr, SprintS(data[KeyPrefix])), message |-> e.Message]
    ELSE LET x == extractPrefix(e.Message) IN
         IF x.prefix # <<>>
         THEN [prefix |-> prefixAnnotation(fmtr, x.prefix), message |-> x.msg]
         ELSE [prefix |-> <<>>, message |-> e.Message]

\* printColored: the bracketed timestamp
coloredTimestamp(fmtr, e, timestampFormat, clock, base) ==
    IF fmtr.ShortTimestamp
    THEN Fmt04d(miniTS(clock, base))
    ELSE TimeFormat(e.Time, timestampFormat)

\* printColored: one field, fmt.Fprintf(b, " %s%s%s=%+v", levelColor, k, reset, v)
coloredField(fmtr, level, k, v) ==
    <<32>> \o levelColor(fmtr, level) \o k \o reset \o <<61>> \o Sprint(v)

\* printColored: what it writes to b, or the panic of reading a nil f.Colors
printColored(fmtr, e, data, keys, timestampFormat, clock, base) ==
    IF fmtr.Colors = NilColors
    THEN [panicked |-> TRUE, b |-> <<>>]
    ELSE LET pm == prefixAndMessage(fmtr, e, data) IN
         [panicked |-> FALSE,
          b |-> prefixColor(fmtr) \o <<91>>
                \o coloredTimestamp(fmtr, e, timestampFormat, clock, base)
                \o <<93>> \o reset \o <<32>>
                \o levelColor(fmtr, e.Level) \o Fmt5s(levelText(e.Level)) \o reset
                \o pm.prefix \o <<32>> \o pm.message
                \o Concat([i \in 1..Len(keys) |->
                             coloredField(fmtr, e.Level, keys[i], data[keys[i]])])]

RECURSIVE appendFields(_, _, _)
\* Format: the loop over keys of the plain mode
appendFields(b, keys, data) ==
    IF keys = <<>> THEN b
    ELSE appendFields(appendKeyValue(b, Head(keys), data[Head(keys)]), Tail(keys), data)

\* Format: the plain mode
printPlain(fmtr, e, data, keys, timestampFormat) ==
    LET b1 == IF ~fmtr.DisableTimestamp
              THEN appendKeyValue(<<>>, KeyTime, StrV(TimeFormat(e.Time, timestampFormat)))
              ELSE <<>>
        b2 == appendKeyValue(b1, KeyLevel, StrV(LevelString(e.Level)))
        b3 == IF e.Message # <<>> THEN appendKeyValue(b2, KeyMsg, StrV(e.Message)) ELSE b2
    IN appendFields(b3, keys, data)

\* Format: the keys of entry.Data but "prefix", in map iteration order
collectKeys(order) == SelectSeq(order, LAMBDA k : k # KeyPrefix)

isColoredForced(fmtr, term, os) ==
    fmtr.ForceColors \/ ((term /\ os # "windows") /\ ~fmtr.DisableColors)

\* Format: isColored
isColored(fmtr, term, os) ==
    (fmtr.ForceColors \/ (term /\ os # "windows")) /\ ~fmtr.DisableColors

\* Format(entry), with the map iteration order and the clock reading it meets:
\* the bytes and error it returns, whether it panicked instead, and the
\* field mapping as it leaves it
Format(fmtr, term, os, base, clock, e, order) ==
    LET keys0 == collectKeys(order)
        keys == IF ~fmtr.DisableSorting THEN SortStrings(keys0) ELSE keys0
        data == prefixFieldClashes(e.Data)
        colored == isColored(fmtr, term, os)
        timestampFormat == IF fmtr.TimestampFormat = <<>> THEN TimeStamp
                           ELSE fmtr.TimestampFormat
        pc == printColored(fmtr, e, data, keys, timestampFormat, clock, base)
    IN  [data |-> data,
         keys |-> keys,
         colored |-> colored,
         panicked |-> colored /\ pc.panicked,
         err |-> "nil",
         out |-> IF colored
                 THEN IF pc.panicked THEN <<>> ELSE pc.b \o <<10>>
                 ELSE printPlain(fmtr, e, data, keys, timestampFormat) \o <<10>>]

---------------------------------------------------------------------------
(* Sequential calls: the caller has built a record, the clock advances,    *)
(* and Format is called on the record the caller holds.                    *)

Strs(alphabet, n) == UNION {[1..k -> alphabet] : k \in 0..n}

\* the orders in which a range over a map with key set S may yield its keys
RECURSIVE Orders(_)
Orders(S) ==
    IF S = {} THEN {<<>>}
    ELSE UNION {{<<x>> \o o : o \in Orders(S \ {x})} : x \in S}

NoData == [k \in {} |-> StrV(<<>>)]

Roles == {"Debug", "Info", "Warn", "Error", "Prefix", "Default"}
NoColors == [r \in Roles |-> <<>>]                    \* &Colors{}
SomeColors == [r \in Roles |->
                 IF r = "Debug" THEN StyleGreen
                 ELSE IF r = "Prefix" THEN StyleCyan ELSE <<>>]
Palettes == {NilColors, NoColors, SomeColors}

Formatters(force, disable, notime, short, layouts, nosort, palettes) ==
    [ForceColors : force, DisableColors : disable, DisableTimestamp : notime,
     ShortTimestamp : short, TimestampFormat : layouts, DisableSorting : nosort,
     Colors : palettes]

AllFormatters ==
    Formatters(BOOLEAN, BOOLEAN, BOOLEAN, BOOLEAN, {<<>>, LayoutClock}, BOOLEAN, Palettes)

Levels == PanicLevel..(DebugLevel + 1)    \* the six levels and one that is none of them

NoCall == [called |-> FALSE]

\* init() has run and the caller has built a record: the state before the
\* first call
InitOver(formatters, terminals, systems, entries) ==
    /\ f \in formatters
    /\ isTerminal \in terminals
    /\ goos \in systems
    /\ baseTimestamp = 0
    /\ now = 0
    /\ entry \in entries
    /\ result = NoCall
    /\ prev = NoCall
    /\ cdata = <<>>
    /\ cpc = <<>>
    /\ crec = <<>>
    /\ ckeys = <<>>

\* the caller makes a fresh copy of the record it had formatted: the same
\* timestamp, level and message, and the field mapping as it was
FreshCopy ==
    /\ result.called
    /\ entry' = result.in
    /\ UNCHANGED <<f, isTerminal, goos, baseTimestamp, now, result, prev>>
    /\ UNCHANGED concVars

\* time passes
Tick ==
    /\ now < MaxClock
    /\ now' = now + 1
    /\ UNCHANGED <<f, isTerminal, goos, baseTimestamp, entry, result, prev>>
    /\ UNCHANGED concVars

\* f.Format(entry); the call before it is kept for comparison when asked
\* for and when it was given the same record
FormatStep(remember) ==
    /\ \E order \in Orders(DOMAIN entry.Data) :
          LET r == Format(f, isTerminal, goos, baseTimestamp, now, entry, order) IN
          /\ result' = [called |-> TRUE, in |-> entry, at |-> now, ret |-> r]
          /\ entry' = [entry EXCEPT !.Data = r.data]
    /\ prev' = IF remember /\ result.called /\ result.in = entry THEN result ELSE NoCall
    /\ UNCHANGED <<f, isTerminal, goos, baseTimestamp, now>>
    /\ UNCHANGED concVars

(* Every configuration and both kinds of output stream, on a few records.  *)

Esc == <<27, 91, 49, 109>>   \* a value that is itself an escape sequence

GeneralEntries ==
    [Time : {7}, Level : Levels, Message : {<<109>>},
     Data : {NoData, [k \in {KeyTime} |-> StrV(Esc)]}]

Init == InitOver(AllFormatters, BOOLEAN, {"linux", "windows"}, GeneralEntries)

Next ==
    \/ FreshCopy
    \/ FormatStep(FALSE)

Spec == Init /\ [][Next]_vars

(* Messages and field values over small alphabets, in both modes.          *)

MsgAlphabet == {91, 93, 32, 97, 10}               \* [ ] space a LF
ValAlphabet == {97, 90, 49, 45, 46, 32, 34, 10}   \* a Z 1 - . space " LF

MsgWorker == <<91, 119, 111, 114, 107, 101, 114, 93, 32, 115, 116, 97, 114, 116, 101, 100, 32, 106, 111, 98>>  \* "[worker] started job"
ValBare == <<97, 98, 99, 45, 49, 46, 50>>  \* "abc-1.2"
ValHello == <<104, 101, 108, 108, 111, 32, 119, 111, 114, 108, 100>>  \* "hello world"
KeyK == <<107>>  \* "k"

Messages == Strs(MsgAlphabet, MaxMsgLen) \cup {MsgWorker}
ValueTexts == Strs(ValAlphabet, MaxValLen) \cup {ValBare, ValHello}
Values == {StrV(s) : s \in ValueTexts} \cup {ErrV(s) : s \in ValueTexts} \cup {IntV(42)}

MsgEntries == [Time : {7}, Level : {InfoLevel}, Message : Messages, Data : {NoData}]
ValEntries ==
    [Time : {7}, Level : {InfoLevel}, Message : {<<109>>},
     Data : {[k \in {key} |-> v] : key \in {KeyK, KeyMsg, KeyPrefix}, v \in Values}]

TextFormatters ==
    Formatters(BOOLEAN, {FALSE}, {TRUE}, {FALSE}, {<<>>}, {FALSE}, {NoColors})

InitText == InitOver(TextFormatters, {FALSE}, {"linux"}, MsgEntries \cup ValEntries)

NextText ==
    \/ FreshCopy
    \/ FormatStep(FALSE)

SpecText == InitText /\ [][NextText]_vars

(* Field mappings of several keys, in every iteration order.               *)

KeyA == <<97>>        \* "a"
KeyB == <<98>>        \* "b"
KeyAB == <<97, 98>>   \* "ab"

KeyUniverse ==
    {KeyA, KeyB, KeyAB, KeyTime, KeyFieldsTime, KeyPrefix}

\* every key carries a value of its own: "v-" followed by the key
ValueOf(k) == StrV(<<118, 45>> \o k)

MapsOver(keys, n) ==
    {[k \in S |-> ValueOf(k)] : S \in {T \in SUBSET keys : Cardinality(T) <= n}}

FieldEntries ==
    [Time : {7}, Level : {InfoLevel}, Message : {<<109>>},
     Data : MapsOver(KeyUniverse, MaxFields)]

FieldFormatters ==
    Formatters(BOOLEAN, {FALSE}, {TRUE}, {FALSE}, {<<>>}, BOOLEAN, {NoColors})

InitFields == InitOver(FieldFormatters, {FALSE}, {"linux"}, FieldEntries)

NextFields ==
    \/ FreshCopy
    \/ FormatStep(FALSE)

SpecFields == InitFields /\ [][NextFields]_vars

(* The same record formatted again and again while the clock runs.         *)

TwiceEntries ==
    [Time : {7}, Level : {InfoLevel}, Message : {<<109>>},
     Data : MapsOver({KeyA, KeyB, KeyTime}, 2)]

TwiceFormatters ==
    Formatters(BOOLEAN, {FALSE}, {TRUE}, BOOLEAN, {<<>>}, BOOLEAN, {NoColors})

InitTwice == InitOver(TwiceFormatters, {FALSE}, {"linux"}, TwiceEntries)

NextTwice ==
    \/ FreshCopy
    \/ Tick
    \/ FormatStep(TRUE)

SpecTwice == InitTwice /\ [][NextTwice]_vars


---------------------------------------------------------------------------
(* Concurrent calls: goroutines call Format on records they share, with no *)
(* synchronization between them; a step is one access of a field mapping.  *)

Goroutines == 1..MaxCalls
Records == {1, 2}

Reserved == <<KeyTime, KeyMsg, KeyLevel>>
Renamed == <<KeyFieldsTime, KeyFieldsMsg, KeyFieldsLevel>>

At(step, k) == [step |-> step, k |-> k]

ConcMaps == MapsOver({KeyTime, KeyMsg, KeyLevel}, 1)

\* init() has run, the callers have built the records, no call is under way
InitConc ==
    /\ f = [ForceColors |-> FALSE, DisableColors |-> FALSE, DisableTimestamp |-> FALSE,
            ShortTimestamp |-> FALSE, TimestampFormat |-> <<>>,
            DisableSorting |-> FALSE, Colors |-> NoColors]
    /\ isTerminal = FALSE
    /\ goos = "linux"
    /\ baseTimestamp = 0
    /\ now = 0
    /\ entry = [Time |-> 7, Level |-> InfoLevel, Message |-> <<109>>, Data |-> NoData]
    /\ result = NoCall
    /\ prev = NoCall
    /\ cdata \in [Records -> ConcMaps]
    /\ cpc = [g \in Goroutines |-> At("idle", 0)]
    /\ crec = [g \in Goroutines |-> 1]
    /\ ckeys = [g \in Goroutines |-> <<>>]

\* goroutine g calls Format on record r
Call(g) ==
    /\ cpc[g].step = "idle"
    /\ \E r \in Records : crec' = [crec EXCEPT ![g] = r]
    /\ cpc' = [cpc EXCEPT ![g] = At("collect", 0)]
    /\ UNCHANGED <<cdata, ckeys>>
    /\ UNCHANGED seqVars

\* Format: the range over entry.Data and the sort (reads the mapping)
Collect(g) ==
    /\ cpc[g].step = "collect"
    /\ \E order \in Orders(DOMAIN cdata[crec[g]]) :
          ckeys' = [ckeys EXCEPT ![g] = SortStrings(collectKeys(order))]
    /\ cpc' = [cpc EXCEPT ![g] = At("check", 1)]
    /\ UNCHANGED <<cdata, crec>>
    /\ UNCHANGED seqVars

\* prefixFieldClashes: _, ok := data[k] (reads the mapping)
CheckClash(g) ==
    /\ cpc[g].step = "check"
    /\ cpc' = [cpc EXCEPT ![g] =
                 IF Reserved[cpc[g].k] \in DOMAIN cdata[crec[g]]
                 THEN At("write", cpc[g].k)
                 ELSE IF cpc[g].k < 3 THEN At("check", cpc[g].k + 1)
                 ELSE At("render", 0)]
    /\ UNCHANGED <<cdata, crec, ckeys>>
    /\ UNCHANGED seqVars

\* prefixFieldClashes: data["fields." + k] = data[k] (writes the mapping)
WriteClash(g) ==
    /\ cpc[g].step = "write"
    /\ cdata' = [cdata EXCEPT ![crec[g]] =
                   FieldClash(@, Reserved[cpc[g].k], Renamed[cpc[g].k])]
    /\ cpc' = [cpc EXCEPT ![g] =
                 IF cpc[g].k < 3 THEN At("check", cpc[g].k + 1) ELSE At("render", 0)]
    /\ UNCHANGED <<crec, ckeys>>
    /\ UNCHANGED seqVars

\* Format: the rendering, which reads entry.Data[key] of every collected key
\* and the package variables
Render(g) ==
    /\ cpc[g].step = "render"
    /\ cpc' = [cpc EXCEPT ![g] = At("done", 0)]
    /\ UNCHANGED <<cdata, crec, ckeys>>
    /\ UNCHANGED seqVars

NextConc ==
    \E g \in Goroutines :
        \/ Call(g)
        \/ Collect(g)
        \/ CheckClash(g)
        \/ WriteClash(g)
        \/ Render(g)

SpecConc == InitConc /\ [][NextConc]_vars

---------------------------------------------------------------------------
(* Reading an output back: where its escape sequences lie.                 *)

Out == result.ret.out
Returned == result.called /\ ~result.ret.panicked

\* the index of the n-th ESC byte of out
NthEsc(out, n) ==
    CHOOSE i \in 1..Len(out) :
        /\ out[i] = 27
        /\ Cardinality({j \in 1..(i - 1) : out[j] = 27}) = n - 1

\* the index of the 'm' that ends the n-th escape sequence of out
NthEscEnd(out, n) ==
    CHOOSE j \in NthEsc(out, n)..Len(out) :
        /\ out[j] = 109
        /\ \A k \in NthEsc(out, n)..(j - 1) : out[k] # 109

\* colored output: the text between the level color and the reset after it
Label(out) == SubSeq(out, NthEscEnd(out, 3) + 1, NthEsc(out, 4) - 1)

HasSuffix(t, s) ==
    Len(s) <= Len(t) /\ \A j \in 1..Len(s) : t[Len(t) - Len(s) + j] = s[j]

---------------------------------------------------------------------------
(* Claims checked under Spec.                                              *)

\* C1: Format always succeeds: whatever the record and the configuration,
\* with a palette or with none, a call returns bytes and a nil error and
\* does not panic.
C1_FormatAlwaysSucceeds ==
    result.called => (~result.ret.panicked /\ result.ret.err = "nil" /\ Out # <<>>)

WantColored == (f.ForceColors \/ (isTerminal /\ goos # "windows")) /\ ~f.DisableColors

\* C3: Format takes the colored mode exactly when (ForceColors or the output
\* is a terminal on a system other than Windows) and DisableColors is not
\* set: the bytes it returns hold an escape byte exactly then, and with
\* DisableColors it returns plain key=value text without one, ForceColors or
\* not.
C3_ModeSelection ==
    result.called =>
        /\ result.ret.colored <=> WantColored
        /\ ~result.ret.panicked => ((27 \in Range(Out)) <=> WantColored)
        /\ f.DisableColors =>
              /\ ~result.ret.panicked
              /\ 27 \notin Range(Out)
              /\ HasPrefix(Out, IF f.DisableTimestamp THEN KeyLevel \o <<61>>
                                ELSE KeyTime \o <<61>>)

\* C3's case: both ForceColors and DisableColors are set, and a field value
\* is itself an escape sequence.
C3_Witness ==
    /\ result.called
    /\ f.ForceColors /\ f.DisableColors
    /\ KeyTime \in DOMAIN result.in.Data

\* the label as the code writes it: the level's name in upper case, in full
FullLabel(level) ==
    CASE level = DebugLevel -> <<68, 69, 66, 85, 71>>      \* "DEBUG"
      [] level = InfoLevel -> <<32, 73, 78, 70, 79>>       \* " INFO"
      [] level = WarnLevel -> <<32, 87, 65, 82, 78>>       \* " WARN"
      [] level = ErrorLevel -> <<69, 82, 82, 79, 82>>      \* "ERROR"
      [] level = FatalLevel -> <<70, 65, 84, 65, 76>>      \* "FATAL"
      [] level = PanicLevel -> <<80, 65, 78, 73, 67>>      \* "PANIC"

\* the label cut to four letters
ShortLabel(level) ==
    CASE level = DebugLevel -> <<32, 68, 69, 66, 85>>      \* " DEBU"
      [] level = InfoLevel -> <<32, 73, 78, 70, 79>>       \* " INFO"
      [] level = WarnLevel -> <<32, 87, 65, 82, 78>>       \* " WARN"
      [] level = ErrorLevel -> <<32, 69, 82, 82, 79>>      \* " ERRO"
      [] level = FatalLevel -> <<32, 70, 65, 84, 65>>      \* " FATA"
      [] level = PanicLevel -> <<32, 80, 65, 78, 73>>      \* " PANI"

NamedLevels == PanicLevel..DebugLevel

\* C9, as amended: in colored mode the level label is the level's name in
\* upper case and in full (DEBUG, INFO, ERROR, FATAL, PANIC), right-aligned
\* in five characters, and for the Warn level it is WARN.
C9_LevelLabelFull ==
    (Returned /\ result.ret.colored /\ result.in.Level \in NamedLevels)
        => Label(Out) = FullLabel(result.in.Level)

\* C9's case: a colored line of a level whose name has five letters.
C9_Witness ==
    Returned /\ result.ret.colored /\ result.in.Level = DebugLevel

\* C9, as claimed: in colored mode the level label is the four-letter
\* abbreviation of the level (DEBU, INFO, WARN, ERRO, ...), right-aligned in
\* five characters.
C9_LevelLabelFourLetters ==
    (Returned /\ result.ret.colored /\ result.in.Level \in NamedLevels)
        => Label(Out) = ShortLabel(result.in.Level)

---------------------------------------------------------------------------
(* Claims checked under SpecText.                                          *)

LineFeeds(s) == Count(10, s)

NoLineFeedIn(e) ==
    /\ 10 \notin Range(e.Message)
    /\ \A k \in DOMAIN e.Data : 10 \notin Range(Sprint(e.Data[k]))

HasAnnotation(out) == out[NthEscEnd(out, 4) + 1] = 27
DisplayedPrefix(out) == SubSeq(out, NthEscEnd(out, 5) + 2, NthEsc(out, 6) - 2)
DisplayedMessage(out) ==
    IF HasAnnotation(out)
    THEN SubSeq(out, NthEscEnd(out, 6) + 2, Len(out) - 1)
    ELSE SubSeq(out, NthEscEnd(out, 4) + 2, Len(out) - 1)

FirstClose(m) ==
    CHOOSE j \in 2..Len(m) : m[j] = 93 /\ \A i \in 2..(j - 1) : m[i] # 93

Bracketed(m) == Len(m) >= 1 /\ m[1] = 91 /\ \E j \in 2..Len(m) : m[j] = 93

AfterToken(m) == SubSeq(m, FirstClose(m) + 1, Len(m))

\* d is s without its leading and trailing white space
IsTrimOf(d, s) ==
    \E i \in 1..(Len(s) + 1) : \E j \in 0..Len(s) :
        /\ d = SubSeq(s, i, j)
        /\ \A k \in 1..(i - 1) : IsSpace(s[k])
        /\ \A k \in (j + 1)..Len(s) : k >= i => IsSpace(s[k])
        /\ d # <<>> => (~IsSpace(d[1]) /\ ~IsSpace(d[Len(d)]))

ColoredMessageOnly ==
    Returned /\ result.ret.colored /\ DOMAIN result.in.Data = {}

\* C5, as amended: in colored mode, for a record with no "prefix" field whose
\* message starts with '[' and has a later ']' with at least one character
\* and no line break between them, the text between '[' and the first ']' is
\* displayed as the prefix and the displayed message is the rest of the
\* message without its leading and trailing white space; for any other
\* message no prefix annotation is written and the message is displayed
\* unchanged.
C5_PrefixExtractionTrimmed ==
    ColoredMessageOnly =>
        LET m == result.in.Message IN
        IF /\ Bracketed(m)
           /\ FirstClose(m) > 2
           /\ \A i \in 2..(FirstClose(m) - 1) : m[i] # 10
        THEN /\ HasAnnotation(Out)
             /\ DisplayedPrefix(Out) = SubSeq(m, 2, FirstClose(m) - 1)
             /\ IsTrimOf(DisplayedMessage(Out), AfterToken(m))
        ELSE /\ ~HasAnnotation(Out)
             /\ DisplayedMessage(Out) = m

\* C5's case: the spec's example, "[worker] started job".
C5_Witness ==
    /\ ColoredMessageOnly
    /\ result.in.Message = MsgWorker
    /\ DisplayedPrefix(Out) = <<119, 111, 114, 107, 101, 114>>
    /\ DisplayedMessage(Out) = <<115, 116, 97, 114, 116, 101, 100, 32, 106, 111, 98>>

\* C5, as claimed: in colored mode, for a record with no "prefix" field whose
\* message starts with '[' and has a later ']', the text between them is
\* displayed as the prefix and the displayed message is the message without
\* that token and one space after it; for any other message no prefix
\* annotation is written and the message is displayed unchanged.
C5_PrefixExtractionOneSpace ==
    ColoredMessageOnly =>
        LET m == result.in.Message IN
        IF Bracketed(m)
        THEN /\ HasAnnotation(Out)
             /\ DisplayedPrefix(Out) = SubSeq(m, 2, FirstClose(m) - 1)
             /\ DisplayedMessage(Out) =
                   IF AfterToken(m) # <<>> /\ AfterToken(m)[1] = 32
                   THEN Tail(AfterToken(m)) ELSE AfterToken(m)
        ELSE /\ ~HasAnnotation(Out)
             /\ DisplayedMessage(Out) = m

BareChars == (97..122) \cup (65..90) \cup (48..57) \cup {45, 46}

\* a text written bare when all its characters are letters, digits, hyphens
\* or periods, and as a quoted literal otherwise
BareOrQuoted(s) == IF Range(s) \subseteq BareChars THEN s ELSE Quote(s)

TextFieldK ==
    /\ Returned
    /\ DOMAIN result.in.Data = {KeyK}
    /\ result.in.Data[KeyK].kind \in {"string", "error"}

\* C8, as amended: in plain mode a text field value, an error's text and the
\* message are written bare if and only if all their characters are ASCII
\* letters, digits, hyphens or periods, and as a quoted, escaped literal
\* otherwise (abc-1.2 bare, "hello world" quoted); in colored mode a field
\* value is written as it is, never quoted.
C8_QuotingPlainOnly ==
    /\ TextFieldK =>
          LET v == result.in.Data[KeyK].s IN
          IF result.ret.colored
          THEN HasSuffix(Out, KeyK \o reset \o <<61>> \o v \o <<10>>)
          ELSE /\ HasSuffix(Out, <<32>> \o KeyK \o <<61>> \o BareOrQuoted(v) \o <<32, 10>>)
               /\ v = ValBare => HasSuffix(Out, <<61>> \o ValBare \o <<32, 10>>)
               /\ v = ValHello =>
                     HasSuffix(Out, <<61, 34>> \o ValHello \o <<34, 32, 10>>)
    /\ (Returned /\ ~result.ret.colored /\ DOMAIN result.in.Data = {}
            /\ result.in.Message # <<>>)
          => HasSuffix(Out, <<32>> \o KeyMsg \o <<61>>
                             \o BareOrQuoted(result.in.Message) \o <<32, 10>>)

\* C8's case: "hello world" as a field value, in plain mode.
C8_Witness ==
    TextFieldK /\ ~result.ret.colored /\ result.in.Data[KeyK] = StrV(ValHello)

\* C8, as claimed: in plain mode and in colored mode alike a text field value
\* (or an error's text) is written bare if and only if all its characters
\* are ASCII letters, digits, hyphens or periods, and as a quoted, escaped
\* literal otherwise.
C8_QuotingBothModes ==
    TextFieldK =>
        LET v == result.in.Data[KeyK].s IN
        IF result.ret.colored
        THEN HasSuffix(Out, KeyK \o reset \o <<61>> \o BareOrQuoted(v) \o <<10>>)
        ELSE HasSuffix(Out, <<32>> \o KeyK \o <<61>> \o BareOrQuoted(v) \o <<32, 10>>)

---------------------------------------------------------------------------
(* Claims checked under SpecFields.                                        *)

InKeys == DOMAIN result.in.Data

\* the keys of a set in lexicographic order
Ascending(K) ==
    CHOOSE s \in Orders(K) : \A i \in 1..(Len(s) - 1) : StrLess(s[i], s[i + 1])

\* the value written for key k: its own, but for "fields.time" beside "time",
\* which the clash step has overwritten with the value of "time"
Shown(k) ==
    IF k = KeyFieldsTime /\ KeyTime \in InKeys
    THEN result.in.Data[KeyTime].s
    ELSE result.in.Data[k].s

PlainField(k) == k \o <<61>> \o Shown(k) \o <<32>>
ColoredField(k) == <<32>> \o Blue \o k \o reset \o <<61>> \o Shown(k)

FieldsInOrder(s) ==
    Concat([i \in 1..Len(s) |->
              IF result.ret.colored THEN ColoredField(s[i]) ELSE PlainField(s[i])])

\* C7: with sorting enabled and no "prefix" key, the fields are written in
\* lexicographic order of their keys, in plain and in colored mode, each key
\* of the mapping once: the line ends with them in that order, and holds as
\* many key=value pairs as there are keys (and level and msg in plain mode).
C7_FieldOrder ==
    (Returned /\ ~f.DisableSorting /\ KeyPrefix \notin InKeys) =>
        /\ HasSuffix(Out, FieldsInOrder(Ascending(InKeys)) \o <<10>>)
        /\ Count(61, Out) = Cardinality(InKeys) + (IF result.ret.colored THEN 0 ELSE 2)

\* C7's case: three fields, of which one key is a prefix of another.
C7_Witness ==
    /\ Returned /\ ~f.DisableSorting
    /\ InKeys = {KeyB, KeyAB, KeyA}
    /\ result.ret.colored

\* C2: for a record with a reserved key K ("time", "msg" or "level") of value
\* X, the output holds the pair fields.K=X, and K is not written with X.
C2_ClashResolution ==
    Returned =>
        \A K \in {KeyTime, KeyMsg, KeyLevel} \cap InKeys :
            LET X == result.in.Data[K].s
                FK == <<102, 105, 101, 108, 100, 115, 46>> \o K    \* "fields." K
            IN  IF result.ret.colored
                THEN /\ Contains(Out, Blue \o FK \o reset \o <<61>> \o X)
                     /\ ~Contains(Out, Blue \o K \o reset \o <<61>> \o X)
                ELSE /\ Contains(Out, <<32>> \o FK \o <<61>> \o X \o <<32>>)
                     /\ ~Contains(Out, <<32>> \o K \o <<61>> \o X \o <<32>>)

---------------------------------------------------------------------------
(* Claims checked under SpecTwice.                                         *)

Twice == prev.called /\ ~prev.ret.panicked /\ Returned

Second(at) == (at - baseTimestamp) \div TicksPerSecond

\* C6, as amended: two calls with the same configuration, each on a fresh
\* copy of the same record, return the same bytes provided sorting is enabled
\* or the mapping has at most one key other than "prefix", and provided, in
\* colored short-timestamp mode, both calls fall in the same whole second
\* since initialization.
C6_IdempotentSortedSameSecond ==
    (/\ Twice
     /\ f.DisableSorting => Cardinality(InKeys \ {KeyPrefix}) <= 1
     /\ (result.ret.colored /\ f.ShortTimestamp) => Second(prev.at) = Second(result.at))
        => prev.ret.out = Out

\* C6's case: two colored short-timestamp calls at different instants of the
\* same second, on a record of two fields.
C6_Witness ==
    /\ Twice
    /\ result.ret.colored /\ f.ShortTimestamp
    /\ prev.at # result.at /\ Second(prev.at) = Second(result.at)
    /\ Cardinality(InKeys) = 2

\* C6, as claimed: two calls with the same configuration, short-timestamp
\* mode and disabled sorting included, each on a fresh copy of the same
\* record, return the same bytes.
C6_IdempotentAlways ==
    Twice => prev.ret.out = Out

---------------------------------------------------------------------------
(* Claims checked under SpecConc.                                          *)

\* the next step of goroutine g reads, or writes, the mapping of its record
ReadsMap(g) == cpc[g].step \in {"collect", "check", "render"}
WritesMap(g) == cpc[g].step = "write"

\* C10: concurrent Format calls are safe: with no caller writing a field
\* mapping, no call is about to write a field mapping that another call is
\* about to read or write.
C10_NoConcurrentMapWrite ==
    \A g \in Goroutines : \A h \in Goroutines \ {g} :
        ~(/\ crec[g] = crec[h]
          /\ WritesMap(g)
          /\ ReadsMap(h) \/ WritesMap(h))

=============================================================================
